---- MODULE Spec2Model ----
(***************************************************************************)
(* LiveTabs (src/LiveTabs.ts): one LiveTabs instance and the part of the   *)
(* document it renders into, and a second instance of the same page where  *)
(* two are looked at.  Strings are sequences of one-character              *)
(* strings, so that the sanitizing of a title and the derivation of the    *)
(* tab id and the content id are computed, not assumed.                    *)
(***************************************************************************)
EXTENDS Integers, Sequences, FiniteSets, TLC

VARIABLES tabContentMap, openedId, maxNumTabs, navbarDiv, tabElements, contentElements, gesture, second, last

vars == <<tabContentMap, openedId, maxNumTabs, navbarDiv, tabElements, contentElements, gesture, second, last>>

\* ------------------------------------------------------------------ bounds

\* the host never holds more than MaxTabs tabs in the store
MaxTabs == 3

\* the numbers the host passes as maxNumTabs / to setMaxTabs are 0..MaxCap
MaxCap == 2

\* ----------------------------------------------------------------- strings

Range(s) == {s[i] : i \in 1..Len(s)}

UpperAlphabet == <<"A", "B", "C", "D", "E", "F", "G", "H", "I", "J", "K", "L", "M", "N", "O", "P", "Q", "R", "S", "T", "U", "V", "W", "X", "Y", "Z">>

LowerAlphabet == <<"a", "b", "c", "d", "e", "f", "g", "h", "i", "j", "k", "l", "m", "n", "o", "p", "q", "r", "s", "t", "u", "v", "w", "x", "y", "z">>

Digits == {"0", "1", "2", "3", "4", "5", "6", "7", "8", "9"}

\* the character class [a-zA-Z0-9] of the regular expression in addTab
IsAlphaNumeric(c) == c \in Range(UpperAlphabet) \cup Range(LowerAlphabet) \cup Digits

\* String.prototype.toLowerCase on one character
LowerChar(c) ==
  IF c \in Range(UpperAlphabet)
  THEN LowerAlphabet[CHOOSE i \in 1..Len(UpperAlphabet) : UpperAlphabet[i] = c]
  ELSE c

toLowerCase(s) == [i \in 1..Len(s) |-> LowerChar(s[i])]

\* tabTitle.replace(/[^a-zA-Z0-9]/g, '').toLowerCase()
sanitizedIdOf(tabTitle) == toLowerCase(SelectSeq(tabTitle, IsAlphaNumeric))

TabPrefix == <<"l", "t", "-", "t", "a", "b", "-">>

ContainerSuffix == <<"-", "c", "o", "n", "t", "a", "i", "n", "e", "r">>

\* `lt-tab-${sanitizedId}`
tabIdOf(tabTitle) == TabPrefix \o sanitizedIdOf(tabTitle)

\* a content id that forgets the title
idContentOfAnyTitle(tabTitle) == ContainerSuffix

\* `${sanitizedId}-container`
idContentOf(tabTitle) == sanitizedIdOf(tabTitle) \o ContainerSuffix

\* what document.getElementById receives when it is handed undefined
Undefined == <<"u", "n", "d", "e", "f", "i", "n", "e", "d">>

\* the indexes at which pat occurs in s
Occurrences(s, pat) == {i \in 1..(Len(s) - Len(pat) + 1) : SubSeq(s, i, i + Len(pat) - 1) = pat}

\* String.prototype.replace with a string pattern: the first occurrence only
replace(s, pat, rep) ==
  IF Occurrences(s, pat) = {}
  THEN s
  ELSE LET i == CHOOSE k \in Occurrences(s, pat) : \A j \in Occurrences(s, pat) : k <= j
       IN SubSeq(s, 1, i - 1) \o rep \o SubSeq(s, i + Len(pat), Len(s))

\* tabId.replace('lt-tab-', '') + '-container'
contentElementIdOf(tabId) == replace(tabId, TabPrefix, <<>>) \o ContainerSuffix

\* ------------------------------------------------------------ the host's inputs

\* the calls of addTab the host makes: "A" and "a!" derive one id, "!" sanitizes to
\* nothing; a tab without a close button, a tab that is not draggable, calls with and
\* without a content callback
AddTabCalls == {
  [tabTitle |-> <<"A">>, showCloseButton |-> TRUE, allowDragAndDrop |-> TRUE, addContent |-> TRUE],
  [tabTitle |-> <<"a", "!">>, showCloseButton |-> TRUE, allowDragAndDrop |-> TRUE, addContent |-> FALSE],
  [tabTitle |-> <<"B">>, showCloseButton |-> TRUE, allowDragAndDrop |-> TRUE, addContent |-> TRUE],
  [tabTitle |-> <<"C">>, showCloseButton |-> FALSE, allowDragAndDrop |-> TRUE, addContent |-> FALSE],
  [tabTitle |-> <<"!">>, showCloseButton |-> TRUE, allowDragAndDrop |-> FALSE, addContent |-> TRUE]}

\* the titles the host passes to addTab
Titles == {c.tabTitle : c \in AddTabCalls}

\* an id that no title of Titles derives
UnknownId == TabPrefix \o <<"z">>

\* the ids the host passes to removeTab and switchTab
Ids == {tabIdOf(t) : t \in Titles} \cup {UnknownId}

\* the ids createTabContent gives the panels of these titles
ContentElementIds == {contentElementIdOf(tabIdOf(t)) : t \in Titles}

\* maxNumTabs: <<>> is undefined, <<n>> is the number n
NoMax == <<>>

MaxValues == {NoMax} \cup {<<n>> : n \in 0..MaxCap}

\* --------------------------------------------------------- Map<string, string>

\* Array.from(map.keys())
mapKeys(map) == [i \in 1..Len(map) |-> map[i].tabId]

mapHas(map, key) == \E i \in 1..Len(map) : map[i].tabId = key

\* Array.prototype.indexOf, 1-based; 0 where the code gets -1
indexOf(array, x) == IF \E i \in 1..Len(array) : array[i] = x THEN CHOOSE i \in 1..Len(array) : array[i] = x /\ \A j \in 1..(i - 1) : array[j] # x ELSE 0

\* map.get(key), as the string getElementById makes of it: Undefined for a key that is absent
mapGet(map, key) == IF mapHas(map, key) THEN map[indexOf(mapKeys(map), key)].contentId ELSE Undefined

\* a set that puts a new key in front
mapSetInFront(map, key, value) ==
  IF mapHas(map, key)
  THEN [i \in 1..Len(map) |-> IF map[i].tabId = key THEN [tabId |-> key, contentId |-> value] ELSE map[i]]
  ELSE <<[tabId |-> key, contentId |-> value]>> \o map

\* map.set(key, value): a new key goes to the end, a key already present keeps its place
mapSet(map, key, value) ==
  IF mapHas(map, key)
  THEN [i \in 1..Len(map) |-> IF map[i].tabId = key THEN [tabId |-> key, contentId |-> value] ELSE map[i]]
  ELSE Append(map, [tabId |-> key, contentId |-> value])

\* a delete that fills the hole with the last entry, as a store without order would
mapDeleteUnordered(map, key) ==
  LET i == indexOf(mapKeys(map), key)
  IN IF i = 0 THEN map
     ELSE IF i = Len(map) THEN SubSeq(map, 1, Len(map) - 1)
     ELSE SubSeq(map, 1, i - 1) \o <<map[Len(map)]>> \o SubSeq(map, i + 1, Len(map) - 1)

\* map.delete(key): the order of the other entries is kept
mapDelete(map, key) == SelectSeq(map, LAMBDA e : e.tabId # key)

\* ---------------------------------------------------------------- the document
\* The navbar is the first child of the parent; the content panels follow it in the
\* order of their creation.  tabElements is the sequence of the navbar's children.  A
\* tab that a drop has put inside the close button of another tab is held by its host,
\* before (innerL) or after (innerR) the host's icon.  contentElements maps an id to
\* the display values of the panels that carry it, in document order: getElementById
\* reads the order of the panels of one id only.

Inner(el) == el.innerL \o el.innerR

\* the places of the tab elements of the document: <<i, 0>> is the navbar's i-th child,
\* <<i, j>> with j > 0 the j-th tab held inside it
Places(tabs) == {<<i, 0>> : i \in 1..Len(tabs)} \cup UNION {{<<i, j>> : j \in 1..Len(Inner(tabs[i]))} : i \in 1..Len(tabs)}

ElementAt(tabs, p) == IF p[2] = 0 THEN tabs[p[1]] ELSE Inner(tabs[p[1]])[p[2]]

\* document order
Before(p, q) == p[1] < q[1] \/ (p[1] = q[1] /\ p[2] < q[2])

NoPlace == <<0, 0>>

\* document.getElementById(id) on an id of a tab element: the first in document order
getTabElementById(tabs, id) ==
  LET hits == {p \in Places(tabs) : ElementAt(tabs, p).id = id}
  IN IF hits = {} THEN NoPlace ELSE CHOOSE p \in hits : \A q \in hits : p = q \/ Before(p, q)

\* document.getElementById(id) on an id of a content panel is not null
hasContentElement(panels, id) == id \in DOMAIN panels /\ panels[id] # <<>>

RemoveAt(seq, i) == SubSeq(seq, 1, i - 1) \o SubSeq(seq, i + 1, Len(seq))

InsertAt(seq, i, x) == SubSeq(seq, 1, i - 1) \o <<x>> \o SubSeq(seq, i, Len(seq))

\* Element.remove() on the tab element at place p (with everything it holds)
removeTabElement(tabs, p) ==
  IF p = NoPlace THEN tabs
  ELSE IF p[2] = 0 THEN RemoveAt(tabs, p[1])
  ELSE IF p[2] <= Len(tabs[p[1]].innerL)
  THEN [tabs EXCEPT ![p[1]].innerL = RemoveAt(@, p[2])]
  ELSE [tabs EXCEPT ![p[1]].innerR = RemoveAt(@, p[2] - Len(tabs[p[1]].innerL))]

\* the tab elements with el at place p in place of what was there
withElementAt(tabs, p, el) ==
  IF p = NoPlace THEN tabs
  ELSE IF p[2] = 0 THEN [tabs EXCEPT ![p[1]] = el]
  ELSE IF p[2] <= Len(tabs[p[1]].innerL)
  THEN [tabs EXCEPT ![p[1]].innerL[p[2]] = el]
  ELSE [tabs EXCEPT ![p[1]].innerR[p[2] - Len(tabs[p[1]].innerL)] = el]

\* classList.add('over') / classList.remove('over') on the tab at place p, on its close
\* button or on the icon in it
setOverClass(tabs, p, part, on) ==
  IF p = NoPlace THEN tabs
  ELSE withElementAt(tabs, p, [ElementAt(tabs, p) EXCEPT !.over = IF on THEN @ \cup {part} ELSE @ \ {part}])

\* style.opacity = value on the tab element at place p
setOpacity(tabs, p, value) ==
  IF p = NoPlace THEN tabs
  ELSE withElementAt(tabs, p, [ElementAt(tabs, p) EXCEPT !.opacity = value])

\* classList.add('active') / classList.remove('active') on the tab element at place p
setActiveClass(tabs, p, on) ==
  IF p = NoPlace THEN tabs
  ELSE IF p[2] = 0 THEN [tabs EXCEPT ![p[1]].active = on]
  ELSE IF p[2] <= Len(tabs[p[1]].innerL)
  THEN [tabs EXCEPT ![p[1]].innerL[p[2]].active = on]
  ELSE [tabs EXCEPT ![p[1]].innerR[p[2] - Len(tabs[p[1]].innerL)].active = on]

\* const el = document.getElementById(id); if (el) el.style.display = value
setDisplay(panels, id, value) == IF hasContentElement(panels, id) THEN [panels EXCEPT ![id][1] = value] ELSE panels

\* document.getElementById(id)?.remove()
removeContentElement(panels, id) == IF hasContentElement(panels, id) THEN [panels EXCEPT ![id] = Tail(@)] ELSE panels

\* ------------------------------------------------------------------ the instance
\* The operations below take and return the whole of the instance and its document:
\* map, opened, max, nav, tabs, panels, with what the call has reported so far (alerts,
\* warnings, calls of the content callback, their arguments and what getAllTabs(),
\* getTabCount() and getActiveTab() return at the time of each, an uncaught exception)
\* and the branch it has taken.

\* a capacity test that lets the store grow one past the capacity
capacityExceeded(w) == w.max # NoMax /\ w.max[1] # 0 /\ Len(w.map) > w.max[1]

\* no capacity test at all
capacityNeverReached(w) == FALSE

\* this.maxNumTabs && this.tabContentMap.size >= this.maxNumTabs
capacityReached(w) == w.max # NoMax /\ w.max[1] # 0 /\ Len(w.map) >= w.max[1]

\* a switchTab that returns when the map does not have the id
switchTabChecked(w, id) ==
  IF w.opened = id \/ ~mapHas(w.map, id) THEN w
  ELSE LET hidden == IF w.opened # <<>>
                     THEN [w EXCEPT !.panels = setDisplay(@, mapGet(w.map, w.opened), "none"),
                                    !.tabs = setActiveClass(@, getTabElementById(@, w.opened), FALSE)]
                     ELSE w
       IN [hidden EXCEPT !.panels = setDisplay(@, mapGet(w.map, id), "block"),
                         !.tabs = setActiveClass(@, getTabElementById(@, id), TRUE),
                         !.opened = id]

\* private switchTab(id)
switchTab(w, id) ==
  IF w.opened = id THEN w
  ELSE LET hidden == IF w.opened # <<>>
                     THEN [w EXCEPT !.panels = setDisplay(@, mapGet(w.map, w.opened), "none"),
                                    !.tabs = setActiveClass(@, getTabElementById(@, w.opened), FALSE)]
                     ELSE w
       IN [hidden EXCEPT !.panels = setDisplay(@, mapGet(w.map, id), "block"),
                         !.tabs = setActiveClass(@, getTabElementById(@, id), TRUE),
                         !.opened = id]

\* private createTab(tabTitle, tabId, showCloseButton, allowDragAndDrop): the button with
\* its id, text and class 'active', its close button and drag handlers if asked for, the
\* tab elements that drops have put inside its close button (left and right of the icon),
\* its style.opacity (rendered as 1 while unset) and those of the tab, its close button
\* and the icon that carry the class 'over'
createTab(tabTitle, tabId, showCloseButton, allowDragAndDrop) ==
  [id |-> tabId, text |-> tabTitle, active |-> TRUE, close |-> showCloseButton, drag |-> allowDragAndDrop, innerL |-> <<>>, innerR |-> <<>>,
   opacity |-> "1", over |-> {}]

\* private createTabContent(tabId); parentElement is null when the container is missing
createTabContent(w, tabId) ==
  IF w.nav THEN [w EXCEPT !.panels[contentElementIdOf(tabId)] = Append(@, "block")] ELSE w

\* an addTab without the test for a tab that already exists
addTabAlways(w, tabTitle, showCloseButton, allowDragAndDrop, addContent) ==
  IF w.max # NoMax /\ w.max[1] # 0 /\ Len(w.map) >= w.max[1] THEN [w EXCEPT !.alerts = @ + 1, !.branch = "capacity"]
  ELSE LET tabId == tabIdOf(tabTitle)
           tab == createTab(tabTitle, tabId, showCloseButton, allowDragAndDrop)
           appended == IF w.nav THEN [w EXCEPT !.tabs = Append(@, tab)] ELSE w
           stored == [createTabContent(appended, tabId) EXCEPT !.map = mapSet(@, tabId, idContentOf(tabTitle))]
           filled == IF addContent
                             THEN [stored EXCEPT !.calls = @ + 1, !.args = Append(@, idContentOf(tabTitle)),
                                                 !.seen = Append(@, [allTabs |-> mapKeys(stored.map), count |-> Len(stored.map), active |-> stored.opened])]
                             ELSE stored
       IN [switchTab(filled, tabId) EXCEPT !.branch = "created"]

\* an addTab that finds the existing tab and returns without switching to it
addTabWithoutFocus(w, tabTitle, showCloseButton, allowDragAndDrop, addContent) ==
  IF w.max # NoMax /\ w.max[1] # 0 /\ Len(w.map) >= w.max[1] THEN [w EXCEPT !.alerts = @ + 1, !.branch = "capacity"]
  ELSE LET tabId == tabIdOf(tabTitle)
       IN IF mapHas(w.map, tabId) THEN [w EXCEPT !.branch = "existing"]
          ELSE LET tab == createTab(tabTitle, tabId, showCloseButton, allowDragAndDrop)
                   appended == IF w.nav THEN [w EXCEPT !.tabs = Append(@, tab)] ELSE w
                   stored == [createTabContent(appended, tabId) EXCEPT !.map = mapSet(@, tabId, idContentOf(tabTitle))]
                   filled == IF addContent
                             THEN [stored EXCEPT !.calls = @ + 1, !.args = Append(@, idContentOf(tabTitle)),
                                                 !.seen = Append(@, [allTabs |-> mapKeys(stored.map), count |-> Len(stored.map), active |-> stored.opened])]
                             ELSE stored
               IN [switchTab(filled, tabId) EXCEPT !.branch = "created"]

\* an addTab that activates the new tab before it calls the content callback
addTabFocusFirst(w, tabTitle, showCloseButton, allowDragAndDrop, addContent) ==
  IF w.max # NoMax /\ w.max[1] # 0 /\ Len(w.map) >= w.max[1] THEN [w EXCEPT !.alerts = @ + 1, !.branch = "capacity"]
  ELSE LET tabId == tabIdOf(tabTitle)
       IN IF mapHas(w.map, tabId) THEN [switchTab(w, tabId) EXCEPT !.branch = "existing"]
          ELSE LET tab == createTab(tabTitle, tabId, showCloseButton, allowDragAndDrop)
                   appended == IF w.nav THEN [w EXCEPT !.tabs = Append(@, tab)] ELSE w
                   stored == switchTab([createTabContent(appended, tabId) EXCEPT !.map = mapSet(@, tabId, idContentOf(tabTitle))], tabId)
                   filled == IF addContent
                             THEN [stored EXCEPT !.calls = @ + 1, !.args = Append(@, idContentOf(tabTitle)),
                                                 !.seen = Append(@, [allTabs |-> mapKeys(stored.map), count |-> Len(stored.map), active |-> stored.opened])]
                             ELSE stored
               IN [filled EXCEPT !.branch = "created"]

\* an addTab that takes the existing tab out of the map and sets it again, as a store
\* that keeps its most recent tab last would
addTabReinserting(w, tabTitle, showCloseButton, allowDragAndDrop, addContent) ==
  IF capacityReached(w) THEN [w EXCEPT !.alerts = @ + 1, !.branch = "capacity"]
  ELSE LET tabId == tabIdOf(tabTitle)
       IN IF mapHas(w.map, tabId)
          THEN [switchTab([w EXCEPT !.map = mapSet(mapDelete(@, tabId), tabId, mapGet(w.map, tabId))], tabId) EXCEPT !.branch = "existing"]
          ELSE LET tab == createTab(tabTitle, tabId, showCloseButton, allowDragAndDrop)
                   appended == IF w.nav THEN [w EXCEPT !.tabs = Append(@, tab)] ELSE w
                   stored == [createTabContent(appended, tabId) EXCEPT !.map = mapSet(@, tabId, idContentOf(tabTitle))]
                   filled == IF addContent
                             THEN [stored EXCEPT !.calls = @ + 1, !.args = Append(@, idContentOf(tabTitle)),
                                                 !.seen = Append(@, [allTabs |-> mapKeys(stored.map), count |-> Len(stored.map), active |-> stored.opened])]
                             ELSE stored
               IN [switchTab(filled, tabId) EXCEPT !.branch = "created"]

\* public addTab(params)
addTab(w, tabTitle, showCloseButton, allowDragAndDrop, addContent) ==
  IF capacityReached(w) THEN [w EXCEPT !.alerts = @ + 1, !.branch = "capacity"]
  ELSE LET tabId == tabIdOf(tabTitle)
       IN IF mapHas(w.map, tabId) THEN [switchTab(w, tabId) EXCEPT !.branch = "existing"]
          ELSE LET tab == createTab(tabTitle, tabId, showCloseButton, allowDragAndDrop)
                   appended == IF w.nav THEN [w EXCEPT !.tabs = Append(@, tab)] ELSE w
                   stored == [createTabContent(appended, tabId) EXCEPT !.map = mapSet(@, tabId, idContentOf(tabTitle))]
                   filled == IF addContent
                             THEN [stored EXCEPT !.calls = @ + 1, !.args = Append(@, idContentOf(tabTitle)),
                                                 !.seen = Append(@, [allTabs |-> mapKeys(stored.map), count |-> Len(stored.map), active |-> stored.opened])]
                             ELSE stored
               IN [switchTab(filled, tabId) EXCEPT !.branch = "created"]

\* a choice that prefers the tab before the removed one
nextTabIndexPreferPrevious(removedTabIndex, length) == IF removedTabIndex > 1 THEN removedTabIndex - 1 ELSE removedTabIndex + 1

\* removeTab's choice of the tab to show next, 1-based: removedTabIndex < length - 1 ? removedTabIndex + 1 : removedTabIndex - 1
nextTabIndex(removedTabIndex, length) == IF removedTabIndex < length THEN removedTabIndex + 1 ELSE removedTabIndex - 1

\* a removeTab without the test for an id that is not in the map
removeTabUnchecked(w, idTab) ==
  LET tabsArray == mapKeys(w.map)
      removed == [w EXCEPT !.tabs = removeTabElement(@, getTabElementById(@, idTab)),
                           !.panels = removeContentElement(@, mapGet(w.map, idTab)),
                           !.map = mapDelete(@, idTab)]
      switchToTabIndex == nextTabIndex(indexOf(tabsArray, idTab), Len(tabsArray))
  IN IF mapHas(removed.map, removed.opened) THEN [removed EXCEPT !.branch = "kept"]
     ELSE IF Len(tabsArray) = 0 THEN [removed EXCEPT !.opened = <<>>, !.branch = "cleared"]
     ELSE IF switchToTabIndex \in 1..Len(tabsArray)
     THEN [switchTab(removed, tabsArray[switchToTabIndex]) EXCEPT !.branch = "switched"]
     ELSE [removed EXCEPT !.branch = "noNeighbour"]

\* public removeTab(idTab)
removeTab(w, idTab) ==
  IF ~mapHas(w.map, idTab) THEN [w EXCEPT !.warns = @ + 1, !.branch = "notFound"]
  ELSE LET tabsArray == mapKeys(w.map)
           removed == [w EXCEPT !.tabs = removeTabElement(@, getTabElementById(@, idTab)),
                                !.panels = removeContentElement(@, mapGet(w.map, idTab)),
                                !.map = mapDelete(@, idTab)]
           switchToTabIndex == nextTabIndex(indexOf(tabsArray, idTab), Len(tabsArray))
       IN IF mapHas(removed.map, removed.opened) THEN [removed EXCEPT !.branch = "kept"]
          ELSE IF Len(tabsArray) = 0 THEN [removed EXCEPT !.opened = <<>>, !.branch = "cleared"]
          ELSE IF switchToTabIndex \in 1..Len(tabsArray)
          THEN [switchTab(removed, tabsArray[switchToTabIndex]) EXCEPT !.branch = "switched"]
          ELSE [removed EXCEPT !.branch = "noNeighbour"]

\* Map.prototype.forEach over the live map: the entry at index i is visited next; an
\* entry that the callback deleted lets the following one slide into its index
RECURSIVE forEachRemoveTab(_, _)
forEachRemoveTab(w, i) ==
  IF i > Len(w.map) THEN w
  ELSE LET key == w.map[i].tabId
           after == removeTab(w, key)
       IN forEachRemoveTab(after, IF i <= Len(after.map) /\ after.map[i].tabId = key THEN i + 1 ELSE i)

\* public removeAllTabs()
removeAllTabs(w) == forEachRemoveTab(w, 1)

\* public getAllTabs()
getAllTabs(w) == mapKeys(w.map)

\* public getTabCount()
getTabCount(w) == Len(w.map)

\* public getActiveTab()
getActiveTab(w) == w.opened

\* a nextTab that goes round from the last tab to the first
nextTabWrapping(w) ==
  LET tabsArray == getAllTabs(w)
      currentIndex == indexOf(tabsArray, w.opened)
  IN IF currentIndex # 0 /\ currentIndex < Len(tabsArray)
     THEN [switchTab(w, tabsArray[currentIndex + 1]) EXCEPT !.branch = "moved"]
     ELSE IF tabsArray # <<>> THEN [switchTab(w, tabsArray[1]) EXCEPT !.branch = "moved"]
     ELSE [w EXCEPT !.warns = @ + 1, !.branch = "edge"]

\* a previousTab that always goes to the first tab
previousTabToFirst(w) ==
  LET tabsArray == getAllTabs(w)
      currentIndex == indexOf(tabsArray, w.opened)
  IN IF currentIndex > 1
     THEN [switchTab(w, tabsArray[1]) EXCEPT !.branch = "moved"]
     ELSE [w EXCEPT !.warns = @ + 1, !.branch = "edge"]

\* public nextTab()
nextTab(w) ==
  LET tabsArray == getAllTabs(w)
      currentIndex == indexOf(tabsArray, w.opened)
  IN IF currentIndex # 0 /\ currentIndex < Len(tabsArray)
     THEN [switchTab(w, tabsArray[currentIndex + 1]) EXCEPT !.branch = "moved"]
     ELSE [w EXCEPT !.warns = @ + 1, !.branch = "edge"]

\* public previousTab()
previousTab(w) ==
  LET tabsArray == getAllTabs(w)
      currentIndex == indexOf(tabsArray, w.opened)
  IN IF currentIndex > 1
     THEN [switchTab(w, tabsArray[currentIndex - 1]) EXCEPT !.branch = "moved"]
     ELSE [w EXCEPT !.warns = @ + 1, !.branch = "edge"]

\* public setMaxTabs(newMax)
setMaxTabs(w, newMax) == [w EXCEPT !.max = <<newMax>>]

\* --------------------------------------------------------------- drag and drop

\* private reorderingMap(): the entries of the navbar's children, in their order
RECURSIVE reorderedFrom(_, _, _, _)
reorderedFrom(children, map, i, newOrder) ==
  IF i > Len(children) THEN newOrder
  ELSE LET tabId == children[i].id
           contentId == mapGet(map, tabId)
       IN reorderedFrom(children, map, i + 1,
            IF mapHas(map, tabId) /\ contentId # <<>> THEN mapSet(newOrder, tabId, contentId) ELSE newOrder)

\* a rebuild that passes over the navbar's first child
reorderingMapFromSecond(w) == [w EXCEPT !.map = reorderedFrom(IF w.nav THEN w.tabs ELSE <<>>, w.map, 2, <<>>)]

\* a rebuild that also makes the first tab of the new order the active id
reorderingMapFocusingFirst(w) ==
  LET newOrder == reorderedFrom(IF w.nav THEN w.tabs ELSE <<>>, w.map, 1, <<>>)
  IN [w EXCEPT !.map = newOrder, !.opened = IF newOrder = <<>> THEN <<>> ELSE newOrder[1].tabId]

\* private reorderingMap()
reorderingMap(w) == [w EXCEPT !.map = reorderedFrom(IF w.nav THEN w.tabs ELSE <<>>, w.map, 1, <<>>)]

\* getBoundingClientRect() of the navbar's i-th child, of its close button and of the icon
\* in the button: the tabs lie side by side, the button at the right end of its tab
getBoundingClientRect(i, element) ==
  IF element = "tab" THEN [left |-> 8 * (i - 1), right |-> 8 * i]
  ELSE IF element = "closeButton" THEN [left |-> 8 * i - 3, right |-> 8 * i - 1]
  ELSE [left |-> 8 * i - 3, right |-> 8 * i - 1]

centerOf(rect) == (rect.left + rect.right) \div 2

\* the e.target and e.clientX of a drop on tab i: on the tab at its left end, its center
\* or its right end, or on the close button
TabDropPoints(el, i) ==
  {[target |-> "tab", clientX |-> x] : x \in {getBoundingClientRect(i, "tab").left, centerOf(getBoundingClientRect(i, "tab")), getBoundingClientRect(i, "tab").right}}
    \cup (IF el.close THEN {[target |-> "closeButton", clientX |-> centerOf(getBoundingClientRect(i, "closeButton"))]} ELSE {})

\* the same for a drop on the icon in the close button of tab i
IconDropPoints(el, i) ==
  IF el.close
  THEN {[target |-> "icon", clientX |-> x] : x \in {getBoundingClientRect(i, "icon").left, centerOf(getBoundingClientRect(i, "icon")), getBoundingClientRect(i, "icon").right}}
  ELSE {}

\* parentNode.insertBefore(draggedElement, insertBefore ? dropTarget : dropTarget.nextSibling)
\* with the tab i of the navbar as dropTarget
insertAtTab(tabs, p, i, insertBefore) ==
  LET dragged == ElementAt(tabs, p)
      without == removeTabElement(tabs, p)
      at == IF p[2] = 0 /\ p[1] < i THEN i - 1 ELSE i
  IN InsertAt(without, IF insertBefore THEN at ELSE at + 1, dragged)

\* the same with the icon of tab i as dropTarget: the dragged element becomes a child of
\* the close button, next to the icon
insertAtIcon(tabs, p, i, insertBefore) ==
  LET dragged == ElementAt(tabs, p)
      without == removeTabElement(tabs, p)
      at == IF p[2] = 0 /\ p[1] < i THEN i - 1 ELSE i
  IN IF insertBefore
     THEN [without EXCEPT ![at].innerL = Append(@, dragged)]
     ELSE [without EXCEPT ![at].innerR = <<dragged>> \o @]

\* an ondrop for which a pointer on the center is before the target: e.clientX <= center
ondropCenterIsBefore(w, i, target, draggedId, clientX) ==
  LET dropTarget == IF target = "closeButton" THEN "tab" ELSE target
      draggedElement == getTabElementById(w.tabs, draggedId)
      insertBefore == clientX <= centerOf(getBoundingClientRect(i, dropTarget))
      at == IF draggedElement[2] = 0 /\ draggedElement[1] < i THEN i - 1 ELSE i
      moved == IF dropTarget = "tab" /\ insertBefore THEN at + 1 ELSE at
  IN IF draggedElement # NoPlace /\ ~(dropTarget = "tab" /\ draggedElement = <<i, 0>>)
     THEN IF dropTarget = "icon" /\ draggedElement = <<i, 0>>
          THEN [w EXCEPT !.threw = TRUE, !.branch = "hierarchy"]
          ELSE [reorderingMap([w EXCEPT !.tabs = IF dropTarget = "tab"
                                                 THEN insertAtTab(@, draggedElement, i, insertBefore)
                                                 ELSE insertAtIcon(@, draggedElement, i, insertBefore)])
                  EXCEPT !.tabs = setOverClass(@, <<moved, 0>>, dropTarget, FALSE),
                         !.branch = IF dropTarget = "tab" THEN "moved" ELSE "nested"]
     ELSE [w EXCEPT !.warns = @ + 1, !.tabs = setOverClass(@, <<i, 0>>, dropTarget, FALSE), !.branch = "invalid"]

\* tab.ondrop of the navbar's i-th child, with e.target, the dragged id of the
\* dataTransfer and e.clientX; the drop target, which the move has taken to the place
\* moved, loses the class 'over' at the end unless insertBefore has thrown
ondrop(w, i, target, draggedId, clientX) ==
  LET dropTarget == IF target = "closeButton" THEN "tab" ELSE target
      draggedElement == getTabElementById(w.tabs, draggedId)
      insertBefore == clientX < centerOf(getBoundingClientRect(i, dropTarget))
      at == IF draggedElement[2] = 0 /\ draggedElement[1] < i THEN i - 1 ELSE i
      moved == IF dropTarget = "tab" /\ insertBefore THEN at + 1 ELSE at
  IN IF draggedElement # NoPlace /\ ~(dropTarget = "tab" /\ draggedElement = <<i, 0>>)
     THEN IF dropTarget = "icon" /\ draggedElement = <<i, 0>>
          THEN [w EXCEPT !.threw = TRUE, !.branch = "hierarchy"]
          ELSE [reorderingMap([w EXCEPT !.tabs = IF dropTarget = "tab"
                                                 THEN insertAtTab(@, draggedElement, i, insertBefore)
                                                 ELSE insertAtIcon(@, draggedElement, i, insertBefore)])
                  EXCEPT !.tabs = setOverClass(@, <<moved, 0>>, dropTarget, FALSE),
                         !.branch = IF dropTarget = "tab" THEN "moved" ELSE "nested"]
     ELSE [w EXCEPT !.warns = @ + 1, !.tabs = setOverClass(@, <<i, 0>>, dropTarget, FALSE), !.branch = "invalid"]

\* ------------------------------------------------------------ the state machine
\* last names the method that ran last, whether the id it was called for (the id addTab
\* derived, the id dragged) was the active one at the call, and the branch it took.

\* gesture is the drag gesture of the user: its phase, the text/plain data of its
\* dataTransfer and the element under the pointer (the navbar's i-th child, its close
\* button or the icon in it, as <<i, part>>); no gesture is under way
NoGesture == [phase |-> "idle", data |-> <<>>, at |-> <<>>]

\* second is a second LiveTabs instance of the page, built on a container that follows
\* the container of the first in the document: its store, its active id, the children of
\* its navbar and the panels of its container; the page holds no second instance
NoSecond == [map |-> <<>>, opened |-> <<>>, tabs |-> <<>>, panels |-> [id \in ContentElementIds |-> <<>>]]

\* constructor(options) and createNavbar(): the container may be missing
Init ==
  /\ tabContentMap = <<>>
  /\ gesture = NoGesture
  /\ second = NoSecond
  /\ openedId = <<>>
  /\ maxNumTabs \in MaxValues
  /\ navbarDiv \in BOOLEAN
  /\ tabElements = <<>>
  /\ contentElements = [id \in ContentElementIds |-> <<>>]
  /\ last = [op |-> "constructor", active |-> FALSE, branch |-> ""]

\* the instance and its document at the start of a call
Cur == [map |-> tabContentMap, opened |-> openedId, max |-> maxNumTabs, nav |-> navbarDiv, tabs |-> tabElements, panels |-> contentElements, alerts |-> 0, warns |-> 0, calls |-> 0, args |-> <<>>, seen |-> <<>>, threw |-> FALSE, branch |-> ""]

\* the instance and its document become as in w
Assigned(w) ==
  /\ tabContentMap' = w.map
  /\ openedId' = w.opened
  /\ maxNumTabs' = w.max
  /\ navbarDiv' = w.nav
  /\ tabElements' = w.tabs
  /\ contentElements' = w.panels
  /\ second' = second

\* a method returns with the instance and its document as in w, its one outcome; a drop
\* that returns this way stands for a whole gesture, from dragstart to dragend, without
\* the cues the gesture shows on its way
Returns(w) ==
  /\ Assigned(w)
  /\ gesture' = gesture

\* what last keeps of the call of op for id that returned with w
Called(op, id, w) == [op |-> op, active |-> (id # <<>> /\ id = openedId), branch |-> w.branch]

AddTab ==
  \E c \in AddTabCalls :
    \E w \in {addTab(Cur, c.tabTitle, c.showCloseButton, c.allowDragAndDrop, c.addContent)} :
       /\ Len(tabContentMap) < MaxTabs \/ mapHas(tabContentMap, tabIdOf(c.tabTitle)) \/ capacityReached(Cur)
       /\ Returns(w)
       /\ last' = Called("addTab", tabIdOf(c.tabTitle), w)

RemoveTab ==
  \E idTab \in Ids :
    \E w \in {removeTab(Cur, idTab)} :
       /\ Returns(w)
       /\ last' = Called("removeTab", idTab, w)

RemoveAllTabs ==
  \E w \in {removeAllTabs(Cur)} :
     /\ Returns(w)
     /\ last' = Called("removeAllTabs", <<>>, w)

SwitchTab ==
  \E id \in Ids :
    \E w \in {switchTab(Cur, id)} :
       /\ Returns(w)
       /\ last' = Called("switchTab", id, w)

NextTab ==
  \E w \in {nextTab(Cur)} :
     /\ Returns(w)
     /\ last' = Called("nextTab", <<>>, w)

PreviousTab ==
  \E w \in {previousTab(Cur)} :
     /\ Returns(w)
     /\ last' = Called("previousTab", <<>>, w)

SetMaxTabs ==
  \E newMax \in 0..MaxCap :
    \E w \in {setMaxTabs(Cur, newMax)} :
       /\ Returns(w)
       /\ last' = Called("setMaxTabs", <<>>, w)

\* tab.onclick of a child of the navbar, the click not being on its close button
ClickTab ==
  \E i \in 1..Len(tabElements) :
    \E w \in {switchTab(Cur, tabElements[i].id)} :
       /\ Returns(w)
       /\ last' = Called("switchTab", tabElements[i].id, w)

\* closeButton.onclick of a child of the navbar
ClickClose ==
  \E i \in 1..Len(tabElements) :
    \E w \in {removeTab(Cur, tabElements[i].id)} :
       /\ tabElements[i].close
       /\ Returns(w)
       /\ last' = Called("removeTab", tabElements[i].id, w)

\* the ids a dragstart on a draggable child of the navbar has put into the dataTransfer,
\* and the empty string of a drag that did not start on a tab
DraggedIds == {tabElements[j].id : j \in {k \in 1..Len(tabElements) : tabElements[k].drag}} \cup {<<>>}

\* a drop on the navbar's i-th child or on its close button
Drop ==
  \E i \in {k \in 1..Len(tabElements) : tabElements[k].drag} :
    \E draggedId \in DraggedIds, e \in TabDropPoints(tabElements[i], i) :
      \E w \in {ondrop(Cur, i, e.target, draggedId, e.clientX)} :
         /\ Returns(w)
         /\ last' = Called("drop", draggedId, w)

Next ==
  \/ AddTab
  \/ RemoveTab
  \/ RemoveAllTabs
  \/ SwitchTab
  \/ NextTab
  \/ PreviousTab
  \/ SetMaxTabs
  \/ ClickTab
  \/ ClickClose
  \/ Drop

\* the host calls the methods, the user clicks tabs and close buttons and drops tabs on
\* tabs and on their close buttons
Spec == Init /\ [][Next]_vars

\* ------------------------------------------------ drops on the icon of a close button
\* The same instance on an existing container, without a capacity, with a user who also
\* drops tabs on the icon inside a close button.

\* at most MaxElements tab elements are in the document at once
MaxElements == 3

\* the calls of addTab this host makes: tabs with a close button that can be dragged
IconAddTabCalls == {c \in AddTabCalls : c.showCloseButton /\ c.allowDragAndDrop /\ c.addContent}

\* at most MaxPanels content panels of one id are in the document at once
MaxPanels == 2

InitIcon ==
  /\ tabContentMap = <<>>
  /\ gesture = NoGesture
  /\ second = NoSecond
  /\ openedId = <<>>
  /\ maxNumTabs = NoMax
  /\ navbarDiv = TRUE
  /\ tabElements = <<>>
  /\ contentElements = [id \in ContentElementIds |-> <<>>]
  /\ last = [op |-> "constructor", active |-> FALSE, branch |-> ""]

AddTabIcon ==
  \E c \in IconAddTabCalls :
    \E w \in {addTab(Cur, c.tabTitle, c.showCloseButton, c.allowDragAndDrop, c.addContent)} :
       /\ \/ mapHas(tabContentMap, tabIdOf(c.tabTitle))
          \/ /\ Cardinality(Places(tabElements)) < MaxElements
             /\ Len(contentElements[contentElementIdOf(tabIdOf(c.tabTitle))]) < MaxPanels
       /\ Returns(w)
       /\ last' = Called("addTab", tabIdOf(c.tabTitle), w)

\* a drop on the icon in the close button of the navbar's i-th child; the dragged tab
\* holds no other tab
DropOnIcon ==
  \E i \in {k \in 1..Len(tabElements) : tabElements[k].drag} :
    \E draggedId \in DraggedIds, e \in IconDropPoints(tabElements[i], i) :
      \E w \in {ondrop(Cur, i, e.target, draggedId, e.clientX)} :
         /\ draggedId # <<>> => Inner(ElementAt(tabElements, getTabElementById(tabElements, draggedId))) = <<>>
         /\ Returns(w)
         /\ last' = Called("drop", draggedId, w)

NextIcon ==
  \/ AddTabIcon
  \/ RemoveTab
  \/ RemoveAllTabs
  \/ SwitchTab
  \/ NextTab
  \/ PreviousTab
  \/ ClickTab
  \/ ClickClose
  \/ Drop
  \/ DropOnIcon

SpecIcon == InitIcon /\ [][NextIcon]_vars

\* ------------------------------------------------- calls and drops on stored tabs
\* The host builds the instance on an existing container, calls switchTab with ids of
\* the store only, and the user drops tabs of the store on other tabs, on their close
\* buttons and on the icons in them.

\* switchTab(id) with an id of the store
SwitchStoredTab ==
  \E i \in 1..Len(tabContentMap) :
    \E w \in {switchTab(Cur, tabContentMap[i].tabId)} :
       /\ Returns(w)
       /\ last' = Called("switchTab", tabContentMap[i].tabId, w)

\* a drop of a tab of the store, rendered as a child of the navbar, on another child of
\* the navbar, on its close button or on the icon in it
DropStoredTab ==
  \E i \in {k \in 1..Len(tabElements) : tabElements[k].drag} :
    \E draggedId \in DraggedIds \ {<<>>, tabElements[i].id}, e \in TabDropPoints(tabElements[i], i) \cup IconDropPoints(tabElements[i], i) :
      \E w \in {ondrop(Cur, i, e.target, draggedId, e.clientX)} :
         /\ mapHas(tabContentMap, draggedId)
         /\ Inner(ElementAt(tabElements, getTabElementById(tabElements, draggedId))) = <<>>
         /\ Returns(w)
         /\ last' = Called("drop", draggedId, w)

NextStored ==
  \/ AddTabIcon
  \/ RemoveTab
  \/ RemoveAllTabs
  \/ SwitchStoredTab
  \/ NextTab
  \/ PreviousTab
  \/ SetMaxTabs
  \/ DropStoredTab

SpecStored == InitIcon /\ [][NextStored]_vars

\* ------------------------------------------------------------ the drag gesture
\* The events of a gesture one by one, with the cues they set: the opacity of the dragged
\* tab and the class 'over' of the element under the pointer.

\* tab.ondragstart with the tab element at place p as e.target
ondragstart(w, p) == [w EXCEPT !.tabs = setOpacity(@, p, "0.4")]

\* a dragenter that also shows the tab under the pointer
ondragenterSwitching(w, at) ==
  IF at = <<>> THEN w
  ELSE switchTab([w EXCEPT !.tabs = setOverClass(@, <<at[1], 0>>, at[2], TRUE)], w.tabs[at[1]].id)

\* tab.ondragenter of the navbar's i-th child with e.target its part
ondragenter(w, at) == IF at = <<>> THEN w ELSE [w EXCEPT !.tabs = setOverClass(@, <<at[1], 0>>, at[2], TRUE)]

\* tab.ondragleave of the navbar's i-th child with e.target its part
ondragleave(w, at) == IF at = <<>> THEN w ELSE [w EXCEPT !.tabs = setOverClass(@, <<at[1], 0>>, at[2], FALSE)]

\* a dragend that restores the opacity of tabs that are children of the navbar only
ondragendOfChildren(w) ==
  [w EXCEPT !.tabs = [i \in 1..Len(w.tabs) |-> [w.tabs[i] EXCEPT !.opacity = "1"]]]

\* tab.ondragend of the dragged tab: dragSrcEl is the element that the dragstart of the
\* gesture has set to opacity 0.4, wherever the drop has put it
ondragend(w) ==
  [w EXCEPT !.tabs = [i \in 1..Len(w.tabs) |->
     [w.tabs[i] EXCEPT !.opacity = "1",
                       !.innerL = [j \in 1..Len(@) |-> [@[j] EXCEPT !.opacity = "1"]],
                       !.innerR = [j \in 1..Len(@) |-> [@[j] EXCEPT !.opacity = "1"]]]]]

\* the elements the pointer can be over: the navbar's children that take drops, their
\* close buttons and the icons in them
PointerTargets(tabs) ==
  {<<i, "tab">> : i \in {k \in 1..Len(tabs) : tabs[k].drag}}
    \cup {<<i, part>> : i \in {k \in 1..Len(tabs) : tabs[k].drag /\ tabs[k].close}, part \in {"closeButton", "icon"}}

\* the e.clientX of a drop on the element: its left end, its center, its right end
PointerXs(at) ==
  {getBoundingClientRect(at[1], at[2]).left, centerOf(getBoundingClientRect(at[1], at[2])), getBoundingClientRect(at[1], at[2]).right}

\* the tabs the host adds while gestures are watched: one with a close button, one without
GestureAddTabCalls == {c \in AddTabCalls : c.allowDragAndDrop /\ c.tabTitle \in {<<"A">>, <<"C">>}}

InitGesture == InitIcon

AddTabBetweenGestures ==
  \E c \in GestureAddTabCalls :
    \E w \in {addTab(Cur, c.tabTitle, c.showCloseButton, c.allowDragAndDrop, c.addContent)} :
       /\ gesture.phase = "idle"
       /\ \/ mapHas(tabContentMap, tabIdOf(c.tabTitle))
          \/ /\ Cardinality(Places(tabElements)) < MaxElements
             /\ Len(contentElements[contentElementIdOf(tabIdOf(c.tabTitle))]) < MaxPanels
       /\ Returns(w)
       /\ last' = Called("addTab", tabIdOf(c.tabTitle), w)

ClickCloseBetweenGestures ==
  \E i \in {k \in 1..Len(tabElements) : tabElements[k].close} :
    \E w \in {removeTab(Cur, tabElements[i].id)} :
       /\ gesture.phase = "idle"
       /\ Returns(w)
       /\ last' = Called("removeTab", tabElements[i].id, w)

\* the user starts to drag a tab
DragStart ==
  \E p \in {q \in Places(tabElements) : ElementAt(tabElements, q).drag} :
    \E w \in {ondragstart(Cur, p)} :
       /\ gesture.phase = "idle"
       /\ Assigned(w)
       /\ gesture' = [phase |-> "dragging", data |-> ElementAt(tabElements, p).id, at |-> <<>>]
       /\ last' = Called("dragstart", ElementAt(tabElements, p).id, w)

\* the user starts to drag something that is not a tab, with no text or some other text
DragStartElsewhere ==
  \E data \in {<<>>, UnknownId} :
     /\ gesture.phase = "idle"
     /\ Assigned(Cur)
     /\ gesture' = [phase |-> "dragging", data |-> data, at |-> <<>>]
     /\ last' = Called("dragstart", data, Cur)

\* the pointer moves on to another element or off the tabs: dragenter there, then
\* dragleave where it was; dragover changes nothing
DragMove ==
  \E at \in PointerTargets(tabElements) \cup {<<>>} :
    \E w \in {ondragleave(ondragenter(Cur, at), gesture.at)} :
       /\ gesture.phase = "dragging"
       /\ at # gesture.at
       /\ Assigned(w)
       /\ gesture' = [gesture EXCEPT !.at = at]
       /\ last' = Called("dragenter", gesture.data, w)

\* the user lets go over an element of a tab
DropAtPointer ==
  \E clientX \in (IF gesture.at = <<>> THEN {} ELSE PointerXs(gesture.at)) :
    \E w \in {ondrop(Cur, gesture.at[1], gesture.at[2], gesture.data, clientX)} :
       /\ gesture.phase = "dragging"
       /\ (gesture.at[2] = "icon" /\ getTabElementById(tabElements, gesture.data) # NoPlace)
            => Inner(ElementAt(tabElements, getTabElementById(tabElements, gesture.data))) = <<>>
       /\ Assigned(w)
       /\ gesture' = [phase |-> "dropped", data |-> gesture.data, at |-> <<>>]
       /\ last' = Called("drop", gesture.data, w)

\* the user lets go elsewhere or presses Escape: dragleave where the pointer was
DragCancel ==
  \E w \in {ondragleave(Cur, gesture.at)} :
     /\ gesture.phase = "dragging"
     /\ Assigned(w)
     /\ gesture' = [phase |-> "cancelled", data |-> gesture.data, at |-> <<>>]
     /\ last' = Called("dragleave", gesture.data, w)

\* dragend ends the gesture, dropped or cancelled
DragEnd ==
  \E w \in {ondragend(Cur)} :
     /\ gesture.phase \in {"dropped", "cancelled"}
     /\ Assigned(w)
     /\ gesture' = NoGesture
     /\ last' = [Called("dragend", gesture.data, w) EXCEPT !.branch = gesture.phase]

NextGesture ==
  \/ AddTabBetweenGestures
  \/ ClickCloseBetweenGestures
  \/ DragStart
  \/ DragStartElsewhere
  \/ DragMove
  \/ DropAtPointer
  \/ DragCancel
  \/ DragEnd

\* the host adds tabs, and the user closes tabs and drags, one gesture at a time
SpecGesture == InitGesture /\ [][NextGesture]_vars

\* ------------------------------------------- callbacks that call the instance
\* The addContent callback of an addTab may call a method of the same instance before it
\* returns.

\* what a callback calls: one method with its argument, or nothing
CallbackCalls ==
  {[op |-> "addTab", tabTitle |-> t, id |-> <<>>, newMax |-> 0] : t \in {<<"A">>, <<"B">>}}
    \cup {[op |-> o, tabTitle |-> <<>>, id |-> id, newMax |-> 0] : o \in {"removeTab", "switchTab"}, id \in {tabIdOf(<<"A">>), tabIdOf(<<"B">>)}}
    \cup {[op |-> o, tabTitle |-> <<>>, id |-> <<>>, newMax |-> 0] : o \in {"removeAllTabs", "nextTab", "previousTab"}}
    \cup {[op |-> "setMaxTabs", tabTitle |-> <<>>, id |-> <<>>, newMax |-> n] : n \in 1..MaxCap}

\* addContent(idContent) with a callback that makes the call cb
addContent(w, cb) ==
  CASE cb.op = "addTab" -> addTab(w, cb.tabTitle, TRUE, TRUE, FALSE)
    [] cb.op = "removeTab" -> removeTab(w, cb.id)
    [] cb.op = "switchTab" -> switchTab(w, cb.id)
    [] cb.op = "removeAllTabs" -> removeAllTabs(w)
    [] cb.op = "nextTab" -> nextTab(w)
    [] cb.op = "previousTab" -> previousTab(w)
    [] cb.op = "setMaxTabs" -> setMaxTabs(w, cb.newMax)

\* public addTab(params) with such a callback as params.addContent
addTabCalling(w, tabTitle, showCloseButton, allowDragAndDrop, cb) ==
  IF capacityReached(w) THEN [w EXCEPT !.alerts = @ + 1, !.branch = "capacity"]
  ELSE LET tabId == tabIdOf(tabTitle)
       IN IF mapHas(w.map, tabId) THEN [switchTab(w, tabId) EXCEPT !.branch = "existing"]
          ELSE LET tab == createTab(tabTitle, tabId, showCloseButton, allowDragAndDrop)
                   appended == IF w.nav THEN [w EXCEPT !.tabs = Append(@, tab)] ELSE w
                   stored == [createTabContent(appended, tabId) EXCEPT !.map = mapSet(@, tabId, idContentOf(tabTitle))]
                   filled == addContent([stored EXCEPT !.calls = @ + 1, !.args = Append(@, idContentOf(tabTitle)),
                                                       !.seen = Append(@, [allTabs |-> mapKeys(stored.map), count |-> Len(stored.map), active |-> stored.opened])], cb)
               IN [switchTab(filled, tabId) EXCEPT !.branch = "created"]

AddTabCalling ==
  \E c \in AddTabCalls, cb \in CallbackCalls :
    \E w \in {addTabCalling(Cur, c.tabTitle, c.showCloseButton, c.allowDragAndDrop, cb)} :
       /\ c.addContent
       /\ Len(w.map) <= MaxTabs
       /\ Returns(w)
       /\ last' = Called("addTab", tabIdOf(c.tabTitle), w)

NextCalling ==
  \/ AddTab
  \/ AddTabCalling
  \/ RemoveTab
  \/ RemoveAllTabs
  \/ SwitchTab
  \/ NextTab
  \/ PreviousTab
  \/ SetMaxTabs
  \/ ClickTab
  \/ ClickClose
  \/ Drop

\* the host also passes callbacks that call the instance
SpecCalling == Init /\ [][NextCalling]_vars

\* ---------------------------------------------------- two instances on one page
\* Two instances built without maxNumTabs on two containers, the container of the first
\* before the container of the second in the document.  Each instance appends to its own
\* navbar and its own container and reads its own map; document.getElementById takes the
\* first element of the id in document order, whichever container holds it.

\* the two instances and their parts of the document, first and second
Page == [map |-> <<tabContentMap, second.map>>, opened |-> <<openedId, second.opened>>,
         tabs |-> <<tabElements, second.tabs>>, panels |-> <<contentElements, second.panels>>,
         warns |-> 0, branch |-> ""]

\* the navbar that holds document.getElementById(id) for the id of a tab, 0 for null
pageTabOwner(x, id) ==
  IF getTabElementById(x.tabs[1], id) # NoPlace THEN 1
  ELSE IF getTabElementById(x.tabs[2], id) # NoPlace THEN 2 ELSE 0

\* the container that holds document.getElementById(id) for the id of a panel, 0 for null
pagePanelOwner(x, id) ==
  IF hasContentElement(x.panels[1], id) THEN 1
  ELSE IF hasContentElement(x.panels[2], id) THEN 2 ELSE 0

\* document.getElementById(id)?.classList.add('active') / .remove('active')
pageSetActiveClass(x, id, on) ==
  LET h == pageTabOwner(x, id)
  IN IF h = 0 THEN x ELSE [x EXCEPT !.tabs[h] = setActiveClass(@, getTabElementById(@, id), on)]

\* const el = document.getElementById(id); if (el) el.style.display = value
pageSetDisplay(x, id, value) ==
  LET h == pagePanelOwner(x, id)
  IN IF h = 0 THEN x ELSE [x EXCEPT !.panels[h] = setDisplay(@, id, value)]

\* document.getElementById(id)?.remove() for the id of a tab
pageRemoveTabElement(x, id) ==
  LET h == pageTabOwner(x, id)
  IN IF h = 0 THEN x ELSE [x EXCEPT !.tabs[h] = removeTabElement(@, getTabElementById(@, id))]

\* document.getElementById(id)?.remove() for the id of a panel
pageRemoveContentElement(x, id) ==
  LET h == pagePanelOwner(x, id)
  IN IF h = 0 THEN x ELSE [x EXCEPT !.panels[h] = removeContentElement(@, id)]

\* switchTab(id) of instance k
switchTabOf(x, k, id) ==
  IF x.opened[k] = id THEN x
  ELSE LET hidden == IF x.opened[k] # <<>>
                     THEN pageSetActiveClass(pageSetDisplay(x, mapGet(x.map[k], x.opened[k]), "none"), x.opened[k], FALSE)
                     ELSE x
       IN [pageSetActiveClass(pageSetDisplay(hidden, mapGet(x.map[k], id), "block"), id, TRUE) EXCEPT !.opened[k] = id]

\* addTab(params) of instance k, without a content callback
addTabOf(x, k, tabTitle, showCloseButton, allowDragAndDrop) ==
  LET tabId == tabIdOf(tabTitle)
  IN IF mapHas(x.map[k], tabId) THEN [switchTabOf(x, k, tabId) EXCEPT !.branch = "existing"]
     ELSE LET stored == [x EXCEPT !.tabs[k] = Append(@, createTab(tabTitle, tabId, showCloseButton, allowDragAndDrop)),
                                  !.panels[k][contentElementIdOf(tabId)] = Append(@, "block"),
                                  !.map[k] = mapSet(@, tabId, idContentOf(tabTitle))]
          IN [switchTabOf(stored, k, tabId) EXCEPT !.branch = "created"]

\* removeTab(idTab) of instance k
removeTabOf(x, k, idTab) ==
  IF ~mapHas(x.map[k], idTab) THEN [x EXCEPT !.warns = @ + 1, !.branch = "notFound"]
  ELSE LET tabsArray == mapKeys(x.map[k])
           removed == [pageRemoveContentElement(pageRemoveTabElement(x, idTab), mapGet(x.map[k], idTab))
                         EXCEPT !.map[k] = mapDelete(@, idTab)]
           switchToTabIndex == nextTabIndex(indexOf(tabsArray, idTab), Len(tabsArray))
       IN IF mapHas(removed.map[k], removed.opened[k]) THEN [removed EXCEPT !.branch = "kept"]
          ELSE IF Len(tabsArray) = 0 THEN [removed EXCEPT !.opened[k] = <<>>, !.branch = "cleared"]
          ELSE IF switchToTabIndex \in 1..Len(tabsArray)
          THEN [switchTabOf(removed, k, tabsArray[switchToTabIndex]) EXCEPT !.branch = "switched"]
          ELSE [removed EXCEPT !.branch = "noNeighbour"]

\* tab.ondrop of the i-th child of the navbar of instance k, the tab itself being
\* e.target: the dragged element is document.getElementById(draggedId), which goes next
\* to the target from whichever navbar holds it; reorderingMap() of instance k follows
ondropOf(x, k, i, draggedId, clientX) ==
  LET h == pageTabOwner(x, draggedId)
      draggedElement == IF h = 0 THEN NoPlace ELSE getTabElementById(x.tabs[h], draggedId)
      insertBefore == clientX < centerOf(getBoundingClientRect(i, "tab"))
  IN IF h # 0 /\ ~(h = k /\ draggedElement = <<i, 0>>)
     THEN LET moved == IF h = k
                       THEN [x EXCEPT !.tabs[k] = insertAtTab(@, draggedElement, i, insertBefore)]
                       ELSE [x EXCEPT !.tabs[h] = removeTabElement(@, draggedElement),
                                      !.tabs[k] = InsertAt(@, IF insertBefore THEN i ELSE i + 1, ElementAt(x.tabs[h], draggedElement))]
          IN [moved EXCEPT !.map[k] = reorderedFrom(moved.tabs[k], x.map[k], 1, <<>>), !.branch = "moved"]
     ELSE [x EXCEPT !.warns = @ + 1, !.branch = "invalid"]

\* the instances and their parts of the document become as in x
PageAssigned(x) ==
  /\ tabContentMap' = x.map[1]
  /\ openedId' = x.opened[1]
  /\ tabElements' = x.tabs[1]
  /\ contentElements' = x.panels[1]
  /\ second' = [map |-> x.map[2], opened |-> x.opened[2], tabs |-> x.tabs[2], panels |-> x.panels[2]]
  /\ UNCHANGED <<maxNumTabs, navbarDiv, gesture>>

\* what last keeps of the call of op of instance k for id that returned with x
CalledOf(op, k, id, x) == [op |-> op, active |-> (id # <<>> /\ id = Page.opened[k]), branch |-> x.branch]

\* the tabs the host of instance k adds, with a close button and draggable: A and B to
\* the first instance, A to the second
PageAddTabCalls(k) == {c \in AddTabCalls : c.tabTitle = <<"A">> \/ (k = 1 /\ c.tabTitle = <<"B">>)}

\* the ids the hosts and the users pass
PageIds == {tabIdOf(<<"A">>), tabIdOf(<<"B">>)}

\* both instances are built on existing containers
InitPage == InitIcon

\* addTab creates a tab only while the navbar of the instance holds fewer than
\* MaxPageTabs tab elements and its container fewer than MaxPageTabs panels
MaxPageTabs == 2

\* the number of content panels of a container that holds at most MaxPageTabs of an id
panelCount(panels) == Cardinality({<<id, n>> \in (DOMAIN panels) \X (1..MaxPageTabs) : n <= Len(panels[id])})

AddTabOf ==
  \E k \in {1, 2} : \E c \in PageAddTabCalls(k) :
    \E x \in {addTabOf(Page, k, c.tabTitle, c.showCloseButton, c.allowDragAndDrop)} :
       /\ \/ mapHas(Page.map[k], tabIdOf(c.tabTitle))
          \/ Len(Page.tabs[k]) < MaxPageTabs /\ panelCount(Page.panels[k]) < MaxPageTabs
       /\ PageAssigned(x)
       /\ last' = CalledOf("addTab", k, tabIdOf(c.tabTitle), x)

RemoveTabOf ==
  \E k \in {1, 2}, idTab \in PageIds :
    \E x \in {removeTabOf(Page, k, idTab)} :
       /\ PageAssigned(x)
       /\ last' = CalledOf("removeTab", k, idTab, x)

\* tab.onclick of a child of the navbar of instance k
ClickTabOf ==
  \E k \in {1, 2} :
    \E i \in 1..Len(Page.tabs[k]) :
      \E x \in {switchTabOf(Page, k, Page.tabs[k][i].id)} :
         /\ PageAssigned(x)
         /\ last' = CalledOf("switchTab", k, Page.tabs[k][i].id, x)

\* a drop of a tab of a navbar on a tab of the same navbar
DropOf ==
  \E k \in {1, 2} :
    \E i \in 1..Len(Page.tabs[k]), j \in 1..Len(Page.tabs[k]) :
      \E clientX \in {getBoundingClientRect(i, "tab").left, getBoundingClientRect(i, "tab").right} :
        \E x \in {ondropOf(Page, k, i, Page.tabs[k][j].id, clientX)} :
           /\ PageAssigned(x)
           /\ last' = CalledOf("drop", k, Page.tabs[k][j].id, x)

NextPage ==
  \/ AddTabOf
  \/ RemoveTabOf
  \/ ClickTabOf
  \/ DropOf

SpecPage == InitPage /\ [][NextPage]_vars

\* ------------------------------------------------------------------ properties
\* The properties about one call are stated on the state the call starts from: for every
\* argument the host can pass, the outcome the method computes from Cur.

\* the store holds the active id
activeInStore(w) == \E i \in 1..Len(getAllTabs(w)) : getAllTabs(w)[i] = getActiveTab(w)

\* a capacity of at least 1 is configured and the store has reached it
atCapacity == maxNumTabs # NoMax /\ maxNumTabs[1] >= 1 /\ getTabCount(Cur) >= maxNumTabs[1]

\* the tab elements without their active styling
unstyled(tabs) == [i \in 1..Len(tabs) |-> [tabs[i] EXCEPT !.active = FALSE]]

\* C1, for removeTab: called in a state in which getActiveTab() is the empty string or an
\* id that getAllTabs() contains, removeTab returns with getActiveTab() the empty string
\* or an id that getAllTabs() contains.
C1_ActiveIsEmptyOrStored ==
  (getActiveTab(Cur) = <<>> \/ activeInStore(Cur))
    => \A idTab \in Ids : getActiveTab(removeTab(Cur, idTab)) = <<>> \/ activeInStore(removeTab(Cur, idTab))

\* C2: removeTab(id) of the only tab of the store leaves getActiveTab() the empty string.
C2_RemovingOnlyTabClearsActive ==
  \A idTab \in Ids :
    getAllTabs(Cur) = <<idTab>> => getActiveTab(removeTab(Cur, idTab)) = <<>>

\* C3: after removeAllTabs(), from any reachable state, getTabCount() is 0 and
\* getActiveTab() is the empty string.
C3_RemoveAllTabsEmptiesAndClears ==
  /\ getTabCount(removeAllTabs(Cur)) = 0
  /\ getActiveTab(removeAllTabs(Cur)) = <<>>

\* C4: removeTab(id) of the active tab, in a store of n >= 2 tabs, makes the tab that
\* followed id in the order the active one, and the tab that preceded it when id was the
\* last.
C4_RemovalFocusesNextElsePrevious ==
  \A idTab \in Ids :
    LET keys == getAllTabs(Cur)
        i == indexOf(keys, idTab)
    IN (i # 0 /\ getActiveTab(Cur) = idTab /\ Len(keys) >= 2)
         => getActiveTab(removeTab(Cur, idTab)) = (IF i < Len(keys) THEN keys[i + 1] ELSE keys[i - 1])

\* C4 happens: the active tab, not the last of three or more, has been removed and the
\* tab that followed it is active
C4_Witness ==
  /\ last.op = "removeTab" /\ last.active /\ last.branch = "switched"
  /\ Len(tabContentMap) >= 2
  /\ openedId = tabContentMap[2].tabId
  /\ \E i \in 1..Len(tabElements) : tabElements[i].id = openedId /\ tabElements[i].active

\* C5: with the active id in the store and different from id, removeTab(id) leaves
\* getActiveTab() as it was, and getAllTabs() is the former sequence without id, the other
\* ids in their former order.
C5_RemovingInactiveKeepsFocusAndOrder ==
  \A idTab \in Ids :
    (activeInStore(Cur) /\ getActiveTab(Cur) # idTab)
      => /\ getActiveTab(removeTab(Cur, idTab)) = getActiveTab(Cur)
         /\ getAllTabs(removeTab(Cur, idTab)) = SelectSeq(getAllTabs(Cur), LAMBDA k : k # idTab)

\* C5 happens: a tab that was not the active one has been removed from between others
C5_Witness ==
  /\ last.op = "removeTab" /\ ~last.active /\ last.branch = "kept"
  /\ Len(tabContentMap) >= 2
  /\ openedId = tabContentMap[Len(tabContentMap)].tabId

\* C6: with a capacity n >= 1 configured and getTabCount() >= n, addTab of any title
\* changes nothing (store, active id, rendered elements), does not call the content
\* callback and raises one capacity notification.
C6_AddTabAtCapacityIsRejected ==
  \A c \in AddTabCalls :
    LET w == addTab(Cur, c.tabTitle, c.showCloseButton, c.allowDragAndDrop, c.addContent)
    IN atCapacity
         => /\ getAllTabs(w) = getAllTabs(Cur) /\ getTabCount(w) = getTabCount(Cur)
            /\ w.map = Cur.map
            /\ getActiveTab(w) = getActiveTab(Cur)
            /\ w.tabs = Cur.tabs /\ w.panels = Cur.panels
            /\ w.calls = 0 /\ w.alerts = 1

\* C6 happens: addTab has been rejected, the store holding more tabs than a capacity
\* that setMaxTabs lowered
C6_Witness ==
  /\ last.op = "addTab" /\ last.branch = "capacity"
  /\ maxNumTabs # NoMax /\ maxNumTabs[1] >= 1 /\ Len(tabContentMap) > maxNumTabs[1]

C8_SetMaxTabsOnlySetsTheLimit ==
  \A newMax \in 0..MaxCap :
    LET w == setMaxTabs(Cur, newMax)
    IN /\ w.map = Cur.map /\ getActiveTab(w) = getActiveTab(Cur)
       /\ w.tabs = Cur.tabs /\ w.panels = Cur.panels
       /\ \A c \in AddTabCalls :
            LET added == addTab(w, c.tabTitle, c.showCloseButton, c.allowDragAndDrop, c.addContent)
            IN ~mapHas(w.map, tabIdOf(c.tabTitle))
                 => IF getTabCount(w) >= newMax
                    THEN getAllTabs(added) = getAllTabs(w)
                    ELSE getAllTabs(added) = Append(getAllTabs(w), tabIdOf(c.tabTitle))

\* C9: addTab of a title whose id is already a key of the store creates no second
\* record: getAllTabs() and getTabCount() are unchanged, no tab element and no content
\* panel is created, the content callback is not called.
C9_ExistingIdCreatesNothing ==
  \A c \in AddTabCalls :
    LET w == addTab(Cur, c.tabTitle, c.showCloseButton, c.allowDragAndDrop, c.addContent)
    IN mapHas(tabContentMap, tabIdOf(c.tabTitle))
         => /\ getAllTabs(w) = getAllTabs(Cur) /\ getTabCount(w) = getTabCount(Cur)
            /\ w.map = Cur.map
            /\ unstyled(w.tabs) = unstyled(Cur.tabs)
            /\ \A id \in DOMAIN w.panels : Len(w.panels[id]) = Len(Cur.panels[id])
            /\ w.calls = 0

\* C9 happens: addTab has found the active tab in the store; it is the one of the empty
\* sanitized id, and another tab carries a title that is not its sanitized id
C9_Witness ==
  /\ last.op = "addTab" /\ last.branch = "existing" /\ last.active
  /\ openedId = tabIdOf(<<"!">>) /\ mapHas(tabContentMap, openedId)
  /\ \E i \in 1..Len(tabElements) : tabElements[i].id = tabIdOf(<<"A">>) /\ tabElements[i].text = <<"a", "!">>

\* C10, as claimed: addTab of a title whose id is already in the store returns with that
\* tab active, in every reachable state.
C10_ExistingTabBecomesActive ==
  \A c \in AddTabCalls :
    mapHas(tabContentMap, tabIdOf(c.tabTitle))
      => getActiveTab(addTab(Cur, c.tabTitle, c.showCloseButton, c.allowDragAndDrop, c.addContent)) = tabIdOf(c.tabTitle)

\* C10, amended: addTab of a title whose id is already in the store returns with that tab
\* active unless a capacity of at least 1 is reached; then the call is rejected and the
\* active tab is the one it was.
C10_ExistingTabBecomesActiveBelowCapacity ==
  \A c \in AddTabCalls :
    mapHas(tabContentMap, tabIdOf(c.tabTitle))
      => getActiveTab(addTab(Cur, c.tabTitle, c.showCloseButton, c.allowDragAndDrop, c.addContent))
           = (IF atCapacity THEN getActiveTab(Cur) ELSE tabIdOf(c.tabTitle))

\* C10 happens: below a configured capacity, addTab has moved the focus to a tab that
\* existed and was not active
C10_Witness ==
  /\ last.op = "addTab" /\ last.branch = "existing" /\ ~last.active
  /\ maxNumTabs # NoMax /\ maxNumTabs[1] > Len(tabContentMap)
  /\ \E i \in 1..Len(tabElements) : tabElements[i].id = openedId /\ tabElements[i].active

\* C11: the store is a bijection between its tabIds and its contentIds, and the contentId
\* of a tabId is the one derived from the same sanitized title: tabId is 'lt-tab-' + s and
\* contentId is s + '-container'.
C11_StoreIsBijection ==
  \A i \in 1..Len(tabContentMap) :
    /\ SubSeq(tabContentMap[i].tabId, 1, Len(TabPrefix)) = TabPrefix
    /\ tabContentMap[i].contentId = SubSeq(tabContentMap[i].tabId, Len(TabPrefix) + 1, Len(tabContentMap[i].tabId)) \o ContainerSuffix
    /\ \A j \in 1..Len(tabContentMap) :
         i # j => tabContentMap[i].tabId # tabContentMap[j].tabId /\ tabContentMap[i].contentId # tabContentMap[j].contentId

\* C11 happens: a drop has rebuilt a store of three tabs, one of them the tab of the empty
\* sanitized id, one created from a title that is not its sanitized id
C11_Witness ==
  /\ last.op = "drop" /\ last.branch = "moved"
  /\ Len(tabContentMap) = 3
  /\ mapHas(tabContentMap, TabPrefix)
  /\ \E i \in 1..Len(tabElements) : tabElements[i].id = tabIdOf(<<"A">>) /\ tabElements[i].text = <<"a", "!">>

\* C12: with no capacity configured or getTabCount() < capacity, addTab of a title whose
\* id is not in the store appends the pair (tabId, contentId) at the end of the order,
\* the former order a prefix, adds 1 to getTabCount(), calls a supplied content callback
\* once, with the new contentId, and returns with the new tab active.
C12_AddTabAppendsAndFocuses ==
  \A c \in AddTabCalls :
    LET w == addTab(Cur, c.tabTitle, c.showCloseButton, c.allowDragAndDrop, c.addContent)
        tabId == TabPrefix \o sanitizedIdOf(c.tabTitle)
        contentId == sanitizedIdOf(c.tabTitle) \o ContainerSuffix
    IN ((maxNumTabs = NoMax \/ getTabCount(Cur) < maxNumTabs[1]) /\ ~mapHas(tabContentMap, tabId))
         => /\ w.map = Append(tabContentMap, [tabId |-> tabId, contentId |-> contentId])
            /\ getAllTabs(w) = Append(getAllTabs(Cur), tabId)
            /\ getTabCount(w) = getTabCount(Cur) + 1
            /\ w.calls = (IF c.addContent THEN 1 ELSE 0)
            /\ w.args = (IF c.addContent THEN <<contentId>> ELSE <<>>)
            /\ getActiveTab(w) = tabId

\* C12 happens: without a capacity, addTab has appended a third tab, which is active and
\* whose panel is the one shown
C12_Witness ==
  /\ last.op = "addTab" /\ last.branch = "created"
  /\ maxNumTabs = NoMax
  /\ Len(tabContentMap) = 3
  /\ openedId = tabContentMap[3].tabId
  /\ navbarDiv /\ contentElements[tabContentMap[3].contentId] = <<"block">>

\* the ids of a sequence of tab elements
elementIds(elements) == [k \in 1..Len(elements) |-> elements[k].id]

\* the ids of the tab elements of the navbar, left to right as they are rendered: each
\* child of the navbar followed by the tab elements it holds
RECURSIVE renderedTabIds(_)
renderedTabIds(tabs) ==
  IF tabs = <<>> THEN <<>>
  ELSE <<Head(tabs).id>> \o elementIds(Inner(Head(tabs))) \o renderedTabIds(Tail(tabs))

\* C13: with the container present, after every addTab, removeTab, removeAllTabs and
\* completed drop, getAllTabs() is the left-to-right sequence of the ids of the tab
\* elements rendered in the navbar.
C13_StoreOrderIsRenderedOrder ==
  (navbarDiv /\ last.op \in {"addTab", "removeTab", "removeAllTabs", "drop"})
    => getAllTabs(Cur) = renderedTabIds(tabElements)

\* the places of the tab elements that carry the id
tabElementsWithId(tabs, id) == {p \in Places(tabs) : ElementAt(tabs, p).id = id}

\* the calls of the public interface, as last.op names them
PublicOperations == {"addTab", "removeTab", "removeAllTabs", "switchTab", "nextTab", "previousTab", "setMaxTabs"}

\* C14: with the container present, after every public operation every stored tabId has
\* exactly one tab element and exactly one content panel, and there is no tab element and
\* no content panel of an id that is not in the store.
C14_OneElementAndOnePanelPerStoredId ==
  (navbarDiv /\ last.op \in PublicOperations)
    => /\ \A i \in 1..Len(tabContentMap) :
            /\ Cardinality(tabElementsWithId(tabElements, tabContentMap[i].tabId)) = 1
            /\ Len(contentElements[tabContentMap[i].contentId]) = 1
       /\ \A p \in Places(tabElements) : mapHas(tabContentMap, ElementAt(tabElements, p).id)
       /\ \A id \in DOMAIN contentElements :
            contentElements[id] # <<>> => \E i \in 1..Len(tabContentMap) : tabContentMap[i].contentId = id

\* the instance is as the constructor has left it: nothing stored, no active id
disabled(w) == getTabCount(w) = 0 /\ getAllTabs(w) = <<>> /\ getActiveTab(w) = <<>>

\* C15: when the container is missing, construction does not throw and every later
\* operation is a no-op: getTabCount() stays 0, getAllTabs() stays empty and getActiveTab()
\* stays ''. (switchTab with an id that is not in the store is the subject of C17 and is
\* not among the operations tried here.)
C15_MissingContainerDisablesInstance ==
  (~navbarDiv /\ disabled(Cur))
    => /\ \A c \in AddTabCalls :
            LET w == addTab(Cur, c.tabTitle, c.showCloseButton, c.allowDragAndDrop, c.addContent)
            IN disabled(w) /\ w.calls = 0 /\ ~w.threw
       /\ \A id \in Ids : disabled(removeTab(Cur, id))
       /\ disabled(removeAllTabs(Cur))
       /\ disabled(nextTab(Cur))
       /\ disabled(previousTab(Cur))
       /\ \A n \in MaxValues : disabled(setMaxTabs(Cur, n))

\* C16: removeTab of an id that is not in the store logs one warning and leaves
\* getAllTabs(), getTabCount(), the active id and the rendered elements as they were.
C16_RemovingUnknownIdChangesNothing ==
  \A idTab \in Ids :
    ~mapHas(tabContentMap, idTab)
      => LET w == removeTab(Cur, idTab)
         IN /\ w.warns = 1
            /\ getAllTabs(w) = getAllTabs(Cur)
            /\ getTabCount(w) = getTabCount(Cur)
            /\ getActiveTab(w) = getActiveTab(Cur)
            /\ w.tabs = tabElements /\ w.panels = contentElements
            /\ w.map = tabContentMap

\* C16 happens: removeTab has been called with an id that is not stored while two tabs
\* were open, and the active id itself is not a stored one
C16_Witness ==
  /\ last.op = "removeTab" /\ last.branch = "notFound"
  /\ Len(tabContentMap) = 2
  /\ openedId # <<>> /\ ~mapHas(tabContentMap, openedId)

styledActive(tabs, id, on) ==
  /\ tabElementsWithId(tabs, id) # {}
  /\ \A p \in tabElementsWithId(tabs, id) : ElementAt(tabs, p).active = on

\* every panel of the content id has the display value
displayed(panels, id, value) ==
  /\ hasContentElement(panels, id)
  /\ \A k \in 1..Len(panels[id]) : panels[id][k] = value

\* C18: switchTab(id) with an id in the store changes nothing when id is the active id;
\* otherwise it returns with getActiveTab() = id, getAllTabs() unchanged and, with the
\* container present, the panel of the tab that was active hidden and its styling
\* removed, the panel of id shown and its tab styled active. A second switchTab(id)
\* changes nothing more.
C18_SwitchTabFocusesStoredId ==
  \A id \in Ids :
    mapHas(tabContentMap, id)
      => LET w == switchTab(Cur, id)
         IN /\ id = getActiveTab(Cur) => w = Cur
            /\ getActiveTab(w) = id
            /\ getAllTabs(w) = getAllTabs(Cur) /\ w.map = tabContentMap
            /\ (navbarDiv /\ id # getActiveTab(Cur) /\ activeInStore(Cur))
                 => /\ styledActive(w.tabs, getActiveTab(Cur), FALSE)
                    /\ displayed(w.panels, mapGet(tabContentMap, getActiveTab(Cur)), "none")
            /\ (navbarDiv /\ id # getActiveTab(Cur))
                 => /\ styledActive(w.tabs, id, TRUE)
                    /\ displayed(w.panels, mapGet(tabContentMap, id), "block")
            /\ switchTab(w, id) = w

\* an operation has left the active id, the order, the elements and the panels alone
sameFocusAndTabs(w) ==
  /\ getActiveTab(w) = getActiveTab(Cur) /\ getAllTabs(w) = getAllTabs(Cur)
  /\ w.map = tabContentMap /\ w.tabs = tabElements /\ w.panels = contentElements

\* C19: previousTab() with the active tab first in getAllTabs() and nextTab() with the
\* active tab last in getAllTabs() leave getActiveTab() and getAllTabs() unchanged; so do
\* both when the store is empty or the active id is not in the store.
C19_NavigationStopsAtTheEnds ==
  LET tabs == getAllTabs(Cur)
  IN /\ (tabs = <<>> \/ ~activeInStore(Cur) \/ tabs[1] = getActiveTab(Cur))
          => sameFocusAndTabs(previousTab(Cur))
     /\ (tabs = <<>> \/ ~activeInStore(Cur) \/ tabs[Len(tabs)] = getActiveTab(Cur))
          => sameFocusAndTabs(nextTab(Cur))

\* C19 happens: nextTab has been called with the last of three tabs active
C19_Witness ==
  /\ last.op = "nextTab" /\ last.branch = "edge" /\ last.active = FALSE
  /\ Len(tabContentMap) = 3
  /\ openedId = tabContentMap[3].tabId

\* C20: with the active tab at place i of getAllTabs(), nextTab() makes the tab at place
\* i + 1 active when there is one, previousTab() the tab at place i - 1 when there is one;
\* neither changes getAllTabs().
C20_NavigationMovesToTheNeighbour ==
  LET tabs == getAllTabs(Cur)
  IN \A i \in 1..Len(tabs) :
       tabs[i] = getActiveTab(Cur)
         => /\ getAllTabs(nextTab(Cur)) = tabs /\ getAllTabs(previousTab(Cur)) = tabs
            /\ i < Len(tabs) => getActiveTab(nextTab(Cur)) = tabs[i + 1]
            /\ i > 1 => getActiveTab(previousTab(Cur)) = tabs[i - 1]

\* C20 happens: previousTab has moved the focus from the third tab to the second, in an
\* order that a drop has made (B was added after A and stands before it)
C20_Witness ==
  /\ last.op = "previousTab" /\ last.branch = "moved"
  /\ Len(tabContentMap) = 3
  /\ openedId = tabContentMap[2].tabId
  /\ navbarDiv /\ tabElements[2].active /\ ~tabElements[3].active
  /\ \E i, j \in 1..3 : i < j /\ tabContentMap[i].tabId = tabIdOf(<<"B">>) /\ tabContentMap[j].tabId = tabIdOf(<<"A">>)

\* the invariants of the set of tabs: the active id is empty or stored, the keys are
\* unique, every stored id has its tab element in the navbar, the count is within a
\* configured capacity
activeEmptyOrStored(w) == getActiveTab(w) = <<>> \/ activeInStore(w)

keysUnique(w) == \A i, j \in 1..Len(w.map) : w.map[i].tabId = w.map[j].tabId => i = j

storedAreRendered(w) == w.nav => \A i \in 1..Len(w.map) : tabElementsWithId(w.tabs, w.map[i].tabId) # {}

withinCapacity(w) == w.max # NoMax => getTabCount(w) <= w.max[1]

\* C21: when the content callback of an addTab calls another public operation of the
\* instance before it returns, and the invariants held at the call of addTab (with no
\* capacity or one of at least 1), then at the return of addTab the active id is empty or
\* stored, the keys are unique, every stored id is rendered, and getTabCount() is within
\* the capacity (unless the callback itself has lowered it with setMaxTabs).
C21_InvariantsSurviveCallbacks ==
  (/\ activeEmptyOrStored(Cur) /\ keysUnique(Cur) /\ storedAreRendered(Cur) /\ withinCapacity(Cur)
   /\ (maxNumTabs = NoMax \/ maxNumTabs[1] >= 1))
    => \A c \in AddTabCalls, cb \in CallbackCalls :
         LET w == addTabCalling(Cur, c.tabTitle, c.showCloseButton, c.allowDragAndDrop, cb)
         IN /\ activeEmptyOrStored(w)
            /\ keysUnique(w)
            /\ storedAreRendered(w)
            /\ cb.op # "setMaxTabs" => withinCapacity(w)

\* the drops of a tab of the navbar on another tab of the navbar (or on its close button):
\* the place i of the target, the dragged id, the event
TabOnTabDrops ==
  UNION {{[i |-> k, draggedId |-> id, target |-> e.target, clientX |-> e.clientX] :
            id \in DraggedIds \ {<<>>, tabElements[k].id}, e \in TabDropPoints(tabElements[k], k)} :
         k \in {k \in 1..Len(tabElements) : tabElements[k].drag}}

\* the order without the id
orderWithout(order, id) == SelectSeq(order, LAMBDA x : x # id)

TabDrops ==
  UNION {{[i |-> k, draggedId |-> id, target |-> e.target, clientX |-> e.clientX] :
            id \in DraggedIds \ {<<>>}, e \in TabDropPoints(tabElements[k], k)} :
         k \in {k \in 1..Len(tabElements) : tabElements[k].drag}}

\* the pairs of the store, without their order
pairsOf(map) == {map[i] : i \in 1..Len(map)}

\* C23: a drop whose payload names a tab of the instance and whose target resolves to a
\* tab of the instance only permutes the store: the set of tabIds, getTabCount() and the
\* contentId of every tabId are as before, and so is getActiveTab().
C23_DropOnlyPermutesStore ==
  \A d \in TabDrops :
    LET w == ondrop(Cur, d.i, d.target, d.draggedId, d.clientX)
    IN /\ {w.map[i].tabId : i \in 1..Len(w.map)} = {tabContentMap[i].tabId : i \in 1..Len(tabContentMap)}
       /\ getTabCount(w) = getTabCount(Cur)
       /\ pairsOf(w.map) = pairsOf(tabContentMap)
       /\ \A i \in 1..Len(tabContentMap) : mapGet(w.map, tabContentMap[i].tabId) = tabContentMap[i].contentId
       /\ getActiveTab(w) = getActiveTab(Cur)

\* C23 happens: a drop has moved an inactive tab among three, C now first, the second active
C23_Witness ==
  /\ last.op = "drop" /\ last.branch = "moved" /\ ~last.active
  /\ Len(tabContentMap) = 3
  /\ tabContentMap[1].tabId = tabIdOf(<<"C">>)
  /\ openedId = tabContentMap[2].tabId
  /\ navbarDiv /\ tabElements[2].active

\* the user is about to let go over an element of a tab
overTab == gesture.phase = "dragging" /\ gesture.at # <<>>

\* C24: a drop whose payload resolves to no element, or whose dragged tab is the tab the
\* drop lands on, applies no reorder: getAllTabs() and getActiveTab() are unchanged, one
\* warning is reported, and the tab dropped on does not carry the drop-target cue.
C24_InvalidDropOnlyWarns ==
  overTab =>
    \A clientX \in PointerXs(gesture.at) :
      LET w == ondrop(Cur, gesture.at[1], gesture.at[2], gesture.data, clientX)
          draggedElement == getTabElementById(tabElements, gesture.data)
      IN (draggedElement = NoPlace \/ draggedElement = <<gesture.at[1], 0>>)
           => /\ getAllTabs(w) = getAllTabs(Cur)
              /\ getActiveTab(w) = getActiveTab(Cur)
              /\ renderedTabIds(w.tabs) = renderedTabIds(tabElements)
              /\ "tab" \notin w.tabs[gesture.at[1]].over
              /\ w.warns = 1
              /\ ~w.threw

\* C25: dragstart, dragover, dragenter, dragleave and dragend never change the store or
\* the active id, only drop does; a gesture that ends with dragend without a drop leaves
\* getAllTabs() and getActiveTab() as they were.
C25_OnlyDropChangesStore ==
  [][((gesture.phase # "idle" \/ gesture'.phase # "idle") /\ gesture'.phase # "dropped")
       => (tabContentMap' = tabContentMap /\ openedId' = openedId /\ maxNumTabs' = maxNumTabs)]_vars

\* C25 happens: a gesture with two tabs in the store has ended without a drop, the second
\* tab active
C25_Witness ==
  /\ last.op = "dragend" /\ last.branch = "cancelled"
  /\ gesture = NoGesture
  /\ Len(tabContentMap) = 2
  /\ openedId = tabContentMap[2].tabId

\* no tab element carries the cue of a dragged tab
noneLifted(tabs) == \A p \in Places(tabs) : ElementAt(tabs, p).opacity = "1"

\* the steps of a gesture: idle -> dragging -> (dropped | cancelled) -> idle
GestureSteps ==
  {<<"idle", "idle">>, <<"idle", "dragging">>, <<"dragging", "dragging">>, <<"dragging", "dropped">>,
   <<"dragging", "cancelled">>, <<"dropped", "idle">>, <<"cancelled", "idle">>}

DescendantDrops ==
  {d \in [i : {k \in 1..Len(tabElements) : tabElements[k].drag /\ tabElements[k].close},
          draggedId : DraggedIds \ {<<>>}, target : {"closeButton", "icon"}, clientX : 0..(8 * Len(tabElements))] :
     /\ d.draggedId # tabElements[d.i].id
     /\ mapHas(tabContentMap, d.draggedId)
     /\ [target |-> d.target, clientX |-> d.clientX] \in TabDropPoints(tabElements[d.i], d.i) \cup IconDropPoints(tabElements[d.i], d.i)}

\* C27: a drop whose event element is a descendant of a tab, its close button or the icon
\* in the close button, is a drop on the tab: the dragged tab ends up a child of the
\* navbar next to that tab, and its id is still in the store after the rebuild.
C27_DropOnDescendantIsDropOnTab ==
  \A d \in DescendantDrops :
    LET w == ondrop(Cur, d.i, d.target, d.draggedId, d.clientX)
    IN /\ ~w.threw
       /\ \E k \in 1..Len(w.tabs) :
            /\ w.tabs[k].id = d.draggedId
            /\ \/ k > 1 /\ w.tabs[k - 1].id = tabElements[d.i].id
               \/ k < Len(w.tabs) /\ w.tabs[k + 1].id = tabElements[d.i].id
       /\ Len(w.tabs) = Len(tabElements)
       /\ mapHas(w.map, d.draggedId)

\* the places of the tab elements that have the class 'active'
styledPlaces(tabs) == {p \in Places(tabs) : ElementAt(tabs, p).active}

\* the content panels that are displayed: the k-th panel of the content id, as <<id, k>>
visiblePanels(panels) == {x \in (DOMAIN panels) \X (1..MaxPanels + 1) : x[2] <= Len(panels[x[1]]) /\ panels[x[1]][x[2]] = "block"}

\* C28: with the container present, after every public operation at most one content panel
\* is visible and at most one tab element is styled active; when the active id is in the
\* store, they are the panel and the tab element of the active id.
C28_AtMostOneTabShown ==
  (navbarDiv /\ last.op \in PublicOperations)
    => /\ Cardinality(visiblePanels(contentElements)) <= 1
       /\ Cardinality(styledPlaces(tabElements)) <= 1
       /\ activeInStore(Cur)
            => /\ visiblePanels(contentElements) = {<<mapGet(tabContentMap, openedId), 1>>}
               /\ \E p \in Places(tabElements) : styledPlaces(tabElements) = {p} /\ ElementAt(tabElements, p).id = openedId

\* C29: a successful addTab inserts the pair, then runs the content callback, then
\* activates the new tab: when the callback is called getAllTabs() ends with the new id,
\* getTabCount() is one more than before and getActiveTab() is still what it was before
\* the call; on return the new tab is the active one.
C29_CallbackRunsBetweenInsertAndFocus ==
  \A c \in AddTabCalls :
    LET w == addTab(Cur, c.tabTitle, c.showCloseButton, c.allowDragAndDrop, c.addContent)
        tabId == TabPrefix \o sanitizedIdOf(c.tabTitle)
    IN (w.branch = "created" /\ c.addContent)
         => /\ w.seen = <<[allTabs |-> Append(getAllTabs(Cur), tabId),
                           count |-> getTabCount(Cur) + 1,
                           active |-> getActiveTab(Cur)]>>
            /\ getActiveTab(w) = tabId
            /\ getAllTabs(w) = Append(getAllTabs(Cur), tabId)

\* C29 happens: addTab has added B with its callback as the third tab
C29_Witness ==
  /\ last.op = "addTab" /\ last.branch = "created" /\ ~last.active
  /\ Len(tabContentMap) = 3
  /\ tabContentMap[3].tabId = tabIdOf(<<"B">>)
  /\ openedId = tabIdOf(<<"B">>)

\* C30: with a capacity of 0, from the constructor or from setMaxTabs(0), every addTab is
\* rejected: it alerts, creates nothing, calls no callback and leaves the store as it is.
C30_CapacityZeroRejectsEveryAddTab ==
  maxNumTabs = <<0>>
    => \A c \in AddTabCalls :
         LET w == addTab(Cur, c.tabTitle, c.showCloseButton, c.allowDragAndDrop, c.addContent)
         IN /\ w.alerts = 1 /\ w.calls = 0
            /\ w.map = tabContentMap /\ getActiveTab(w) = getActiveTab(Cur)
            /\ w.tabs = tabElements /\ w.panels = contentElements

\* no tab element and no content panel is in the document
nothingRendered(w) == Places(w.tabs) = {} /\ \A id \in DOMAIN w.panels : w.panels[id] = <<>>

\* C31: removeAllTabs() returns having removed every tab of the store once, no removeTab
\* of its iteration finding its id gone: getAllTabs() is empty afterwards and no tab
\* element and no content panel of the instance is left in the document.
C31_RemoveAllTabsRemovesEachOnce ==
  \E w \in {removeAllTabs(Cur)} :
     /\ getAllTabs(w) = <<>>
     /\ w.warns = 0
     /\ ~w.threw
     /\ nothingRendered(w)

\* the entries of map whose tabId is also a key of other, in the order of map
entriesAlsoIn(map, other) == SelectSeq(map, LAMBDA e : mapHas(other, e.tabId))

\* the tabs that are in the store before and after have kept their order among
\* themselves and their contentId
keptInOrder(w) == entriesAlsoIn(tabContentMap, w.map) = entriesAlsoIn(w.map, tabContentMap)

\* C32: addTab, removeTab, removeAllTabs, switchTab, nextTab, previousTab and setMaxTabs
\* leave the tabs that are in the store before and after the call in the order they had
\* among themselves, each with the contentId it had; only a drop reorders.
C32_OnlyDropReorders ==
  /\ \A c \in AddTabCalls : keptInOrder(addTab(Cur, c.tabTitle, c.showCloseButton, c.allowDragAndDrop, c.addContent))
  /\ \A id \in Ids : keptInOrder(removeTab(Cur, id)) /\ keptInOrder(switchTab(Cur, id))
  /\ keptInOrder(removeAllTabs(Cur))
  /\ keptInOrder(nextTab(Cur))
  /\ keptInOrder(previousTab(Cur))
  /\ \A newMax \in 0..MaxCap : keptInOrder(setMaxTabs(Cur, newMax))

\* C32 happens: a drop has put B, added after A, in front of A and of a third tab, and
\* a later addTab of the existing tab A has then left that order alone
C32_Witness ==
  /\ last.op = "addTab" /\ last.branch = "existing"
  /\ Len(tabContentMap) = 3
  /\ tabContentMap[1].tabId = tabIdOf(<<"B">>) /\ tabContentMap[2].tabId = tabIdOf(<<"A">>)
  /\ openedId = tabIdOf(<<"A">>)

\* the calls in which switchTab or the selection at the end of removeTab runs, as last.op
\* names them: a click on a tab is a switchTab, a click on a close button a removeTab
ActiveIdWriters == {"addTab", "removeTab", "removeAllTabs", "switchTab", "nextTab", "previousTab"}

\* C33: the active id is '' after construction; a step changes it only in switchTab
\* (called directly, by a click on a tab, by addTab, nextTab or previousTab) or in the
\* selection that ends removeTab. A drop, dragstart, dragenter, dragleave, dragend and
\* setMaxTabs leave it as it was (getAllTabs, getTabCount and getActiveTab only read).
C33_ActiveIdChangesOnlyBySwitchOrRemoval ==
  /\ [](/\ last.op = "constructor" => openedId = <<>>
        /\ \A p \in Places(tabElements) : ondragstart(Cur, p).opened = openedId
        /\ \A at \in PointerTargets(tabElements) :
             ondragenter(Cur, at).opened = openedId /\ ondragleave(Cur, at).opened = openedId
        /\ ondragend(Cur).opened = openedId)
  /\ [][openedId' # openedId => last'.op \in ActiveIdWriters]_vars

\* C33 happens: a drop has moved the active tab B in front of A with the capacity set to
\* 2 by setMaxTabs at some time, and B is still the active tab
C33_Witness ==
  /\ last.op = "drop" /\ last.branch = "moved" /\ last.active
  /\ maxNumTabs = <<2>>
  /\ getAllTabs(Cur) = <<tabIdOf(<<"B">>), tabIdOf(<<"C">>)>>
  /\ openedId = tabIdOf(<<"B">>)

\* C34: with the container present, addTab calls whose callbacks leave the instance
\* alone, switchTab calls with ids of the store only and drops of stored tabs only,
\* whenever the store is not empty after an operation the active id is one of its keys.
C34_NonEmptyStoreHasActiveTab ==
  Len(tabContentMap) > 0 => mapHas(tabContentMap, openedId)

\* instance h and its part of the document are in y as they are in x
untouched(x, y, h) ==
  /\ y.map[h] = x.map[h] /\ y.opened[h] = x.opened[h]
  /\ y.tabs[h] = x.tabs[h] /\ y.panels[h] = x.panels[h]

\* C35: of two instances on different containers of one page, an addTab, a removeTab, a
\* switchTab or a drop on one never changes the store, the active id, the rendered tab
\* elements or the content panels of the other, also when both hold a tab of one
\* sanitized title.
C35_InstancesAreIndependent ==
  \A k \in {1, 2} :
    /\ \A c \in PageAddTabCalls(k) : untouched(Page, addTabOf(Page, k, c.tabTitle, c.showCloseButton, c.allowDragAndDrop), 3 - k)
    /\ \A idTab \in PageIds : untouched(Page, removeTabOf(Page, k, idTab), 3 - k)
    /\ \A i \in 1..Len(Page.tabs[k]) :
         /\ untouched(Page, switchTabOf(Page, k, Page.tabs[k][i].id), 3 - k)
         /\ \A j \in 1..Len(Page.tabs[k]), clientX \in {getBoundingClientRect(i, "tab").left, getBoundingClientRect(i, "tab").right} :
              untouched(Page, ondropOf(Page, k, i, Page.tabs[k][j].id, clientX), 3 - k)

\* no tab element, no close button and no icon carries the class 'over'
noneOver(tabs) == \A p \in Places(tabs) : ElementAt(tabs, p).over = {}

\* the element under the pointer is the one element that carries the class 'over', as
\* it is when every dragenter has come before the dragleave of the element left
overUnderPointerOnly ==
  /\ gesture.phase = "dragging" /\ gesture.at # <<>>
  /\ \A p \in Places(tabElements) :
       ElementAt(tabElements, p).over = IF p = <<gesture.at[1], 0>> THEN {gesture.at[2]} ELSE {}

\* C36: when a gesture whose pointer is over a tab or over its close button finishes,
\* with a drop or with the dragleave that precedes its dragend, no tab element and no
\* descendant of a tab carries the drop-target cue.
C36_FinishedGestureLeavesNoCue ==
  (overUnderPointerOnly /\ gesture.at[2] \in {"tab", "closeButton"})
    => /\ \A clientX \in PointerXs(gesture.at) :
            noneOver(ondrop(Cur, gesture.at[1], gesture.at[2], gesture.data, clientX).tabs)
       /\ noneOver(ondragend(ondragleave(Cur, gesture.at)).tabs)
====
